---- MODULE Spec2Model ----
(***************************************************************************)
(* Model of static/app.js: the view controller of the parcel tracking      *)
(* page.  The DOM regions the script writes are the fields of the record   *)
(* dom; every event callback of the script (startup hydration, the input   *)
(* listener, the submit listener up to its first await, and each           *)
(* resumption of the submit listener after an await) is one action, since  *)
(* the event loop runs each of them to completion.                         *)
(*                                                                         *)
(* The user-facing texts of the script are Persian; strings here are the   *)
(* English renderings, one distinct string per distinct text of the script.*)
(***************************************************************************)
EXTENDS Integers, Sequences, FiniteSets, TLC

VARIABLES
    absent,      \* the page elements (and window.fetch) that do not exist
    dom,         \* the state of the DOM regions the script reads and writes
    phase,       \* "load" before the script's last statement ran, then "ready"
    requests,    \* one entry per fetch() issued, in the order issued
    netCalls,    \* number of fetch() calls issued
    submissions, \* number of submit events with a non-empty trimmed barcode
    warnings,    \* number of console.warn calls
    order,       \* the requests whose handler has finished, in that order
    lastRender,  \* the request and payload of the latest renderResult that returned
    last         \* the callback that ran last, with its inputs

vars == <<absent, dom, phase, requests, netCalls, submissions, warnings, order,
          lastRender, last>>

---------------------------------------------------------------------------
\* Bounds of the model.

\* Submit events with a non-empty barcode in one behaviour.
MaxSubmits == 2

\* The same, on a page that lacks an element.
MaxSubmitsDom == 1

\* Events of a tracking result given to the timeline renderer.
MaxEvents == 2

---------------------------------------------------------------------------
\* JavaScript values.  A missing property reads as Absent (undefined).

Absent == "<undefined>"

Null == [t |-> "null"]

Obj(fields) == [t |-> "obj", f |-> fields]

Str(s) == [t |-> "str", s |-> s]

\* The parsed JSON value [].
EmptyArray == [t |-> "arr"]

\* Boolean(v) of a JS value: objects and arrays are truthy, null and the empty
\* string are not.
Truthy(v) == v.t \in {"obj", "arr"} \/ (v.t = "str" /\ v.s # "")

\* String(v), the text an element shows when v is assigned to its textContent.
StringOf(v) ==
    CASE v.t = "str" -> v.s
      [] v.t = "arr" -> ""
      [] v.t = "obj" -> "[object Object]"

\* data.k of an object (undefined when the property is missing).
Prop(data, k) == IF data.t = "obj" /\ k \in DOMAIN data.f THEN data.f[k] ELSE Absent

\* Boolean(s) of a string-or-undefined property value.
TruthyStr(s) == s # Absent /\ s # ""

\* data.events || []
Events(data) == IF data.t = "obj" /\ "events" \in DOMAIN data.f THEN data.f.events ELSE <<>>

Whitespace == {" "}

RECURSIVE TrimStart(_)
TrimStart(s) == IF s # <<>> /\ Head(s) \in Whitespace THEN TrimStart(Tail(s)) ELSE s

RECURSIVE TrimEnd(_)
TrimEnd(s) ==
    IF s # <<>> /\ s[Len(s)] \in Whitespace THEN TrimEnd(SubSeq(s, 1, Len(s) - 1)) ELSE s

\* String.prototype.trim on a string held as its sequence of characters.
Trim(s) == TrimEnd(TrimStart(s))

---------------------------------------------------------------------------
\* The texts of the script.

ValidationMessage == "please enter a tracking code"

ServerFallbackMessage == "unable to retrieve information"

UnknownErrorMessage == "unknown error occurred"

SuccessMessage == "parcel information updated successfully"

\* The message of the TypeError a property read of null throws.
TypeErrorMessage(property) == "Cannot read properties of null (reading '" \o property \o "')"

---------------------------------------------------------------------------
\* The page elements the script queries at startup.

Elements ==
    {"form", "barcodeInput", "resultsPanel", "summaryContainer", "timelineContainer",
     "rawSection", "rawPre", "errorBox", "successBox", "loadingOverlay", "fetch"}

form == "form" \notin absent

barcodeInput == form /\ "barcodeInput" \notin absent

resultsPanel == "resultsPanel" \notin absent

summaryContainer == "summaryContainer" \notin absent

timelineContainer == "timelineContainer" \notin absent

rawSection == "rawSection" \notin absent

rawPre == rawSection /\ "rawPre" \notin absent

errorBox == "errorBox" \notin absent

successBox == "successBox" \notin absent

loadingOverlay == "loadingOverlay" \notin absent

hasFetch == "fetch" \notin absent

---------------------------------------------------------------------------
\* State presenter.

toggleLoading(d, state) ==
    IF ~loadingOverlay THEN d ELSE [d EXCEPT !.loadingHidden = ~state]

clearSuccess(d) ==
    IF successBox THEN [d EXCEPT !.successHidden = TRUE, !.successText = ""] ELSE d

showError(d, message) ==
    IF ~errorBox THEN d
    ELSE LET d1 == [d EXCEPT !.errorText = IF Truthy(message) THEN StringOf(message) ELSE "",
                             !.errorHidden = ~Truthy(message)]
             d2 == IF barcodeInput THEN [d1 EXCEPT !.hasError = Truthy(message)] ELSE d1
         IN  IF Truthy(message) /\ resultsPanel THEN [d2 EXCEPT !.resultsHidden = FALSE] ELSE d2

showSuccess(d, message) ==
    IF ~successBox THEN d
    ELSE [d EXCEPT !.successText = message, !.successHidden = (message = "")]

---------------------------------------------------------------------------
\* How a call ends: normally, or by throwing error.

NoError == [isError |-> FALSE, message |-> Absent]

Normal(d) == [dom |-> d, threw |-> FALSE, error |-> NoError]

Throw(d, e) == [dom |-> d, threw |-> TRUE, error |-> e]

\* new Error(message), and the TypeError of a property read of null.
Error(message) == [isError |-> TRUE, message |-> message]

TypeError(property) == Error(TypeErrorMessage(property))

---------------------------------------------------------------------------
\* Formatter / renderer.  The content of a region is held as what was
\* appended to it; "initial" is the markup the server rendered, "cleared" an
\* emptied region (innerHTML = '').

InitialContent == [kind |-> "initial", items |-> <<>>]

Cleared == [kind |-> "cleared", items |-> <<>>]

TimelineEmptyState ==
    [kind |-> "empty-state", items |-> <<"no events recorded yet",
        "details appear here once the first event of the parcel is recorded">>]

SummaryEmptyState ==
    [kind |-> "empty-state", items |-> <<"no summary information found",
        "the status summary appears here once more details are recorded">>]

renderEmpty(d) ==
    IF ~timelineContainer THEN d ELSE [d EXCEPT !.timeline = TimelineEmptyState]

\* The (label, property) pairs of the summary, in the order of the array literal.
SummaryFields ==
    << [label |-> "tracking code", key |-> "barcode"],
       [label |-> "current status", key |-> "current_status"],
       [label |-> "sender", key |-> "sender"],
       [label |-> "receiver", key |-> "receiver"] >>

\* Mutant of SummaryItems: only missing values are filtered out, empty ones kept.
SummaryItems_KeepEmpty(data) ==
    LET all == [i \in 1..Len(SummaryFields) |->
                   [label |-> SummaryFields[i].label,
                    value |-> Prop(data, SummaryFields[i].key)]]
        items == SelectSeq(all, LAMBDA item : item.value # Absent)
    IN  [i \in 1..Len(items) |->
            [label |-> items[i].label, value |-> items[i].value, delay |-> (i - 1) * 8]]

\* The entries the summary shows for data: the pairs with a truthy value, each
\* with its reveal delay in hundredths of a second.
SummaryItems(data) ==
    LET all == [i \in 1..Len(SummaryFields) |->
                   [label |-> SummaryFields[i].label,
                    value |-> Prop(data, SummaryFields[i].key)]]
        items == SelectSeq(all, LAMBDA item : TruthyStr(item.value))
    IN  [i \in 1..Len(items) |->
            [label |-> items[i].label, value |-> items[i].value, delay |-> (i - 1) * 8]]

renderSummary(d, data) ==
    IF ~summaryContainer THEN Normal(d)
    ELSE IF data.t = "null"
         THEN Throw([d EXCEPT !.summary = Cleared], TypeError("barcode"))
         ELSE IF SummaryItems(data) = <<>>
              THEN Normal([d EXCEPT !.summary = SummaryEmptyState])
              ELSE Normal([d EXCEPT !.summary =
                              [kind |-> "items", items |-> SummaryItems(data)]])

\* event.k || fallback
OrElse(event, k, fallback) ==
    IF k \in DOMAIN event /\ event[k] # "" THEN event[k] ELSE fallback

\* The list items the timeline shows for events, in the order received.
TimelineItems(events) ==
    [i \in 1..Len(events) |->
        [date     |-> OrElse(events[i], "date", "-"),
         time     |-> OrElse(events[i], "time", "-"),
         title    |-> OrElse(events[i], "description", "unknown status"),
         location |-> OrElse(events[i], "location", "unknown location"),
         delay    |-> (i - 1) * 6]]

\* Mutant of renderTimeline: the list is appended to what the region holds.
renderTimeline_Accumulate(d, events) ==
    IF ~timelineContainer THEN d
    ELSE IF events = <<>>
         THEN renderEmpty([d EXCEPT !.timeline = Cleared])
         ELSE [d EXCEPT !.timeline =
                  [kind |-> "list",
                   items |-> (IF d.timeline.kind = "list" THEN d.timeline.items ELSE <<>>)
                             \o TimelineItems(events)]]

renderTimeline(d, events) ==
    IF ~timelineContainer THEN d
    ELSE IF events = <<>>
         THEN renderEmpty([d EXCEPT !.timeline = Cleared])
         ELSE [d EXCEPT !.timeline = [kind |-> "list", items |-> TimelineItems(events)]]

\* JSON.stringify(value, null, 2).  The keys of an object come in the order of
\* the received text, which for the payloads of the model is KeyOrder.
KeyOrder ==
    <<"barcode", "current_status", "sender", "receiver", "events", "raw_response",
      "error", "date", "time", "description", "location">>

RECURSIVE Spaces(_)
Spaces(n) == IF n = 0 THEN "" ELSE " " \o Spaces(n - 1)

Quote(s) == "\"" \o s \o "\""

RECURSIVE JoinLines(_)
JoinLines(lines) ==
    IF Len(lines) = 1 THEN lines[1] ELSE lines[1] \o ",\n" \o JoinLines(Tail(lines))

RECURSIVE StringifyObject(_, _)
StringifyObject(fields, level) ==
    LET keys == SelectSeq(KeyOrder, LAMBDA k : k \in DOMAIN fields)
        array(events) ==
            IF events = <<>> THEN "[]"
            ELSE "[\n"
                 \o JoinLines([i \in 1..Len(events) |->
                        Spaces(2 * (level + 2)) \o StringifyObject(events[i], level + 2)])
                 \o "\n" \o Spaces(2 * (level + 1)) \o "]"
        member(k) ==
            Spaces(2 * (level + 1)) \o Quote(k) \o ": "
            \o (IF k = "events" THEN array(fields[k]) ELSE Quote(fields[k]))
    IN  IF keys = <<>> THEN "{}"
        ELSE "{\n" \o JoinLines([i \in 1..Len(keys) |-> member(keys[i])])
             \o "\n" \o Spaces(2 * level) \o "}"

JSONStringify(value) ==
    CASE value.t = "null" -> "null"
      [] value.t = "str"  -> Quote(value.s)
      [] value.t = "obj"  -> StringifyObject(value.f, 0)

\* data.raw_response || data (raw_response is a JSON string in the model).
RawPayload(data) ==
    IF TruthyStr(Prop(data, "raw_response")) THEN Str(Prop(data, "raw_response")) ELSE data

renderRawResponse(d, data) ==
    IF ~rawSection \/ ~rawPre THEN d
    ELSE [d EXCEPT !.rawText = JSONStringify(RawPayload(data)), !.rawHidden = FALSE]

\* Mutant of renderResultTail: without a timeline region the render stops there.
renderResultTail_StopWithoutTimeline(d, data) ==
    IF data.t = "null" THEN Throw(d, TypeError("events"))
    ELSE IF ~timelineContainer THEN Normal(d)
    ELSE Normal(showSuccess(renderRawResponse(renderTimeline(d, Events(data)), data),
                            SuccessMessage))

\* Line 183 reads data.events before renderTimeline is called: of null it throws.
renderResultTail(d, data) ==
    IF data.t = "null" THEN Throw(d, TypeError("events"))
    ELSE Normal(showSuccess(renderRawResponse(renderTimeline(d, Events(data)), data),
                            SuccessMessage))

\* Mutant of renderResult: the error of an earlier failure is not cleared.
renderResult_KeepError(d, data) ==
    IF ~resultsPanel THEN Normal(d)
    ELSE LET d1 == clearSuccess([d EXCEPT !.resultsHidden = FALSE])
             s  == renderSummary(d1, data)
         IN  IF s.threw THEN s ELSE renderResultTail(s.dom, data)

renderResult(d, data) ==
    IF ~resultsPanel THEN Normal(d)
    ELSE LET d1 == showError(clearSuccess([d EXCEPT !.resultsHidden = FALSE]), Str(""))
             s  == renderSummary(d1, data)
         IN  IF s.threw THEN s ELSE renderResultTail(s.dom, data)

---------------------------------------------------------------------------
\* Hydration loader.  An embedded script element is missing, or holds blank
\* text, unparsable text, or the text of a JSON value.

ScriptMissing == [t |-> "missing"]

ScriptBlank == [t |-> "blank"]

ScriptMalformed == [t |-> "malformed"]

Script(value) == [t |-> "json", v |-> value]

\* Mutant of readJSONScript: the catch block returns a value instead of null.
readJSONScript_CatchReturnsValue(script) ==
    CASE script.t = "missing"   -> [value |-> Null, warned |-> FALSE]
      [] script.t = "blank"     -> [value |-> Null, warned |-> FALSE]
      [] script.t = "malformed" -> [value |-> Str("SyntaxError"), warned |-> TRUE]
      [] script.t = "json"      -> [value |-> script.v, warned |-> FALSE]

\* The value readJSONScript returns, and whether it warned on the console.
readJSONScript(script) ==
    CASE script.t = "missing"   -> [value |-> Null, warned |-> FALSE]
      [] script.t = "blank"     -> [value |-> Null, warned |-> FALSE]
      [] script.t = "malformed" -> [value |-> Null, warned |-> TRUE]
      [] script.t = "json"      -> [value |-> script.v, warned |-> FALSE]

\* Mutant of hydrateInitialState: the success banner of the render is kept.
hydrateInitialState_KeepSuccess(d, trackingScript, errorScript) ==
    LET initialResult == readJSONScript(trackingScript).value
        initialError  == readJSONScript(errorScript).value
        d1 == IF Truthy(initialResult) THEN renderResult(d, initialResult).dom ELSE d
    IN  IF Truthy(initialError) THEN showError(d1, initialError) ELSE d1

\* Mutant of hydrateInitialState: without a result an empty one is rendered.
hydrateInitialState_RenderAlways(d, trackingScript, errorScript) ==
    LET initialResult == readJSONScript(trackingScript).value
        initialError  == readJSONScript(errorScript).value
        d1 == clearSuccess(renderResult(d, IF Truthy(initialResult) THEN initialResult
                                           ELSE Obj([k \in {} |-> ""])).dom)
    IN  IF Truthy(initialError) THEN showError(d1, initialError) ELSE d1

hydrateInitialState(d, trackingScript, errorScript) ==
    LET initialResult == readJSONScript(trackingScript).value
        initialError  == readJSONScript(errorScript).value
        d1 == IF Truthy(initialResult)
              THEN clearSuccess(renderResult(d, initialResult).dom)
              ELSE d
    IN  IF Truthy(initialError) THEN showError(d1, initialError) ELSE d1

---------------------------------------------------------------------------
\* Input listener (lines 200-208), applied to the field's new value.

\* Mutant of onInput: the flag and the success banner are cleared, the error
\* region is left alone.
onInput_KeepError(d, value) ==
    LET d0 == [d EXCEPT !.value = value]
        d1 == IF Trim(value) = <<>> THEN [d0 EXCEPT !.hasError = FALSE] ELSE d0
    IN  clearSuccess(d1)

\* Mutant of onInput: typing also hides the results panel.
onInput_HidePanel(d, value) ==
    LET d0 == [d EXCEPT !.value = value, !.resultsHidden = TRUE]
        d1 == IF Trim(value) = <<>> THEN [d0 EXCEPT !.hasError = FALSE] ELSE d0
    IN  showError(clearSuccess(d1), Str(""))

\* Mutant of onInput: the success banner is left alone.
onInput_KeepSuccess(d, value) ==
    LET d0 == [d EXCEPT !.value = value]
        d1 == IF Trim(value) = <<>> THEN [d0 EXCEPT !.hasError = FALSE] ELSE d0
    IN  showError(d1, Str(""))

onInput(d, value) ==
    LET d0 == [d EXCEPT !.value = value]
        d1 == IF Trim(value) = <<>> THEN [d0 EXCEPT !.hasError = FALSE] ELSE d0
    IN  showError(clearSuccess(d1), Str(""))

---------------------------------------------------------------------------
\* Submit listener (lines 211-246).

\* Mutant of SubmittedBarcode: the value is not trimmed.
SubmittedBarcode_Untrimmed(d) == IF barcodeInput THEN d.value ELSE <<>>

\* barcodeInput?.value.trim(): undefined, here the empty string, without the field.
SubmittedBarcode(d) == IF barcodeInput THEN Trim(d.value) ELSE <<>>

\* Mutant of submitInvalid: the loading indicator is shown before validation.
submitInvalid_LoadingOn(d) ==
    showError(toggleLoading(clearSuccess(d), TRUE), Str(ValidationMessage))

\* Lines 212-219 when the barcode is empty: the handler returns at line 218.
submitInvalid(d) == showError(clearSuccess(d), Str(ValidationMessage))

\* Lines 212-232 when the barcode is not empty, up to the await of fetch.
submitValid(d) == showError(toggleLoading(clearSuccess(d), TRUE), Str(""))

\* Mutant of ServerErrorMessage: the error field of the body is ignored.
ServerErrorMessage_AlwaysFallback(payload) == ServerFallbackMessage

\* payload?.error || fallback
ServerErrorMessage(payload) ==
    IF TruthyStr(Prop(payload, "error")) THEN Prop(payload, "error")
    ELSE ServerFallbackMessage

\* Lines 235-239: what the try block does with the parsed body.
tryBody(d, ok, payload) ==
    IF ~ok THEN Throw(d, Error(ServerErrorMessage(payload)))
    ELSE renderResult(d, payload)

\* Mutant of CatchMessage: the message of the thrown failure is ignored.
CatchMessage_AlwaysUnknown(error) == UnknownErrorMessage

\* Line 241.
CatchMessage(error) == IF error.isError THEN error.message ELSE UnknownErrorMessage

\* Mutant of settle: the loading indicator is turned off at the end of the try
\* block instead of in a finally block.
settle_NoFinally(completion) ==
    IF completion.threw
    THEN showError(completion.dom, Str(CatchMessage(completion.error)))
    ELSE toggleLoading(completion.dom, FALSE)

\* Lines 240-245: the catch block when the try block threw, then finally.
settle(completion) ==
    toggleLoading(IF completion.threw
                  THEN showError(completion.dom, Str(CatchMessage(completion.error)))
                  ELSE completion.dom,
                  FALSE)

---------------------------------------------------------------------------
\* The inputs of the model.

InputValues == {<<>>, <<" ">>, <<"A">>, <<" ", "A", " ">>}

EmptyObject == Obj([k \in {} |-> ""])

ResultFull ==
    Obj([barcode |-> "A", current_status |-> "delivered", sender |-> "S",
         receiver |-> "R",
         events |-> << [date |-> "d1", time |-> "t1", description |-> "accepted",
                        location |-> "Tehran"],
                       [description |-> "delivered", location |-> ""] >>,
         raw_response |-> "RAW"])

ResultPartial == Obj([barcode |-> "A", sender |-> "", events |-> <<>>])

ErrorBodies == {Obj([error |-> "not found"]), Obj([error |-> ""])}

TrackingResults == {ResultFull, ResultPartial, EmptyObject}

\* The JSON values a response body or an embedded script parses to.
Bodies == TrackingResults \cup ErrorBodies \cup {Null}

NonError == [isError |-> FALSE, message |-> "thrown value"]

\* What fetch() rejects with, and what response.json() rejects with.
FetchFailures == {Error("Failed to fetch"), Error(""), NonError}

ParseFailures == {Error("Unexpected token < in JSON at position 0"), Error(""), NonError}

TrackingScripts ==
    {ScriptMissing, ScriptBlank, ScriptMalformed, Script(Null), Script(ResultFull),
     Script(ResultPartial)}

ErrorScripts ==
    {ScriptMissing, ScriptMalformed, Script(Str("")), Script(Str("bad code")),
     Script(EmptyArray)}

---------------------------------------------------------------------------
\* The page as the server delivers it, before the script runs: banners, loading
\* indicator, results panel and raw section hidden, regions with server markup.

InitialDom(value) ==
    [ resultsHidden |-> TRUE,
      summary       |-> InitialContent,
      timeline      |-> InitialContent,
      rawText       |-> "",
      rawHidden     |-> TRUE,
      errorText     |-> "",
      errorHidden   |-> TRUE,
      successText   |-> "",
      successHidden |-> TRUE,
      loadingHidden |-> TRUE,
      value         |-> value,
      hasError      |-> FALSE ]

NoRender == [req |-> 0, data |-> Null]

InitWith(missing) ==
    /\ absent = missing
    /\ dom \in {InitialDom(v) : v \in InputValues}
    /\ phase = "load"
    /\ requests = <<>>
    /\ netCalls = 0
    /\ submissions = 0
    /\ warnings = 0
    /\ order = <<>>
    /\ lastRender = NoRender
    /\ last = [op |-> "none", req |-> 0, arg |-> <<>>]

\* Every element of the DOM contract exists and the browser has fetch.
Init == InitWith({})

---------------------------------------------------------------------------
\* Actions: one per callback run.

\* Line 249: the script's last statement.
Hydrate(trackingScript, errorScript) ==
    /\ phase = "load"
    /\ phase' = "ready"
    /\ dom' = hydrateInitialState(dom, trackingScript, errorScript)
    /\ warnings' = warnings
                   + (IF readJSONScript(trackingScript).warned THEN 1 ELSE 0)
                   + (IF readJSONScript(errorScript).warned THEN 1 ELSE 0)
    /\ lastRender' = IF Truthy(readJSONScript(trackingScript).value)
                     THEN [req |-> 0, data |-> readJSONScript(trackingScript).value]
                     ELSE lastRender
    /\ last' = [op |-> "hydrate", req |-> 0,
                arg |-> [tracking |-> trackingScript, error |-> errorScript]]
    /\ UNCHANGED <<absent, requests, netCalls, submissions, order>>

\* The user edits the barcode field: the field takes the value, the listener runs.
Input(value) ==
    /\ phase = "ready"
    /\ barcodeInput
    /\ dom' = onInput(dom, value)
    /\ last' = [op |-> "input", req |-> 0, arg |-> value]
    /\ UNCHANGED <<absent, phase, requests, netCalls, submissions, warnings, order,
                   lastRender>>

\* A submit event with an empty trimmed barcode.
SubmitInvalid ==
    /\ phase = "ready"
    /\ form /\ hasFetch
    /\ SubmittedBarcode(dom) = <<>>
    /\ dom' = submitInvalid(dom)
    /\ last' = [op |-> "submit", req |-> 0, arg |-> dom.value]
    /\ UNCHANGED <<absent, phase, requests, netCalls, submissions, warnings, order,
                   lastRender>>

\* The request a submission issues: fetch is called once, the handler suspends.
IssueRequest(reqs, barcode) == Append(reqs, [barcode |-> barcode, pc |-> "fetch", ok |-> FALSE])

\* The number of non-empty submissions the model follows.
SubmitBound == IF absent = {} THEN MaxSubmits ELSE MaxSubmitsDom

\* A submit event with a non-empty trimmed barcode.
SubmitValid ==
    /\ phase = "ready"
    /\ form /\ hasFetch
    /\ SubmittedBarcode(dom) # <<>>
    /\ submissions < SubmitBound
    /\ dom' = submitValid(dom)
    /\ requests' = IssueRequest(requests, SubmittedBarcode(dom))
    /\ netCalls' = netCalls + (Len(requests') - Len(requests))
    /\ submissions' = submissions + 1
    /\ last' = [op |-> "submit", req |-> Len(requests'), arg |-> dom.value]
    /\ UNCHANGED <<absent, phase, warnings, order, lastRender>>

\* fetch resolves with a response: the handler resumes and awaits response.json().
FetchResolve(i, ok) ==
    /\ i \in DOMAIN requests
    /\ requests[i].pc = "fetch"
    /\ requests' = [requests EXCEPT ![i].pc = "json", ![i].ok = ok]
    /\ last' = [op |-> "fetchResolve", req |-> i, arg |-> ok]
    /\ UNCHANGED <<absent, dom, phase, netCalls, submissions, warnings, order, lastRender>>

\* Mutant of FetchReject: the first rejection is retried with a second fetch.
FetchReject_Retry(i, error) ==
    /\ i \in DOMAIN requests
    /\ requests[i].pc = "fetch"
    /\ IF netCalls = submissions
       THEN /\ netCalls' = netCalls + 1
            /\ UNCHANGED <<dom, requests, order>>
       ELSE /\ dom' = settle(Throw(dom, error))
            /\ requests' = [requests EXCEPT ![i].pc = "failed"]
            /\ order' = Append(order, i)
            /\ UNCHANGED netCalls
    /\ last' = [op |-> "fetchReject", req |-> i, arg |-> error]
    /\ UNCHANGED <<absent, phase, submissions, warnings, lastRender>>

\* fetch rejects: catch, finally.
FetchReject(i, error) ==
    /\ i \in DOMAIN requests
    /\ requests[i].pc = "fetch"
    /\ dom' = settle(Throw(dom, error))
    /\ requests' = [requests EXCEPT ![i].pc = "failed"]
    /\ order' = Append(order, i)
    /\ last' = [op |-> "fetchReject", req |-> i, arg |-> error]
    /\ UNCHANGED <<absent, phase, netCalls, submissions, warnings, lastRender>>

\* response.json() rejects: catch, finally.
JsonReject(i, error) ==
    /\ i \in DOMAIN requests
    /\ requests[i].pc = "json"
    /\ dom' = settle(Throw(dom, error))
    /\ requests' = [requests EXCEPT ![i].pc = "failed"]
    /\ order' = Append(order, i)
    /\ last' = [op |-> "jsonReject", req |-> i, arg |-> [ok |-> requests[i].ok, error |-> error]]
    /\ UNCHANGED <<absent, phase, netCalls, submissions, warnings, lastRender>>

\* Mutant of JsonResolve: the response of a request that is not the latest
\* issued is dropped instead of rendered.
JsonResolve_DropStale(i, payload) ==
    /\ i \in DOMAIN requests
    /\ requests[i].pc = "json"
    /\ LET stale == i < Len(requests)
           completion == IF stale THEN Normal(dom)
                         ELSE tryBody(dom, requests[i].ok, payload)
       IN  /\ dom' = settle(completion)
           /\ requests' = [requests EXCEPT ![i].pc = IF completion.threw THEN "failed" ELSE "ok"]
           /\ lastRender' = IF completion.threw \/ stale THEN lastRender
                            ELSE [req |-> i, data |-> payload]
    /\ order' = Append(order, i)
    /\ last' = [op |-> "jsonResolve", req |-> i, arg |-> [ok |-> requests[i].ok, payload |-> payload]]
    /\ UNCHANGED <<absent, phase, netCalls, submissions, warnings>>

\* response.json() resolves with the parsed body: lines 235-245.
JsonResolve(i, payload) ==
    /\ i \in DOMAIN requests
    /\ requests[i].pc = "json"
    /\ LET completion == tryBody(dom, requests[i].ok, payload)
       IN  /\ dom' = settle(completion)
           /\ requests' = [requests EXCEPT ![i].pc = IF completion.threw THEN "failed" ELSE "ok"]
           /\ lastRender' = IF completion.threw THEN lastRender
                            ELSE [req |-> i, data |-> payload]
    /\ order' = Append(order, i)
    /\ last' = [op |-> "jsonResolve", req |-> i, arg |-> [ok |-> requests[i].ok, payload |-> payload]]
    /\ UNCHANGED <<absent, phase, netCalls, submissions, warnings>>

Next ==
    \/ \E t \in TrackingScripts, e \in ErrorScripts : Hydrate(t, e)
    \/ \E v \in InputValues : Input(v)
    \/ SubmitInvalid
    \/ SubmitValid
    \/ \E i \in 1..MaxSubmits, ok \in BOOLEAN : FetchResolve(i, ok)
    \/ \E i \in 1..MaxSubmits, e \in FetchFailures : FetchReject(i, e)
    \/ \E i \in 1..MaxSubmits, e \in ParseFailures : JsonReject(i, e)
    \/ \E i \in 1..MaxSubmits, b \in Bodies : JsonResolve(i, b)

Spec == Init /\ [][Next]_vars

\* The elements of which one may be missing from the page.
OptionalElements ==
    {"resultsPanel", "summaryContainer", "timelineContainer", "rawSection", "errorBox",
     "successBox", "loadingOverlay"}

\* The page lacks exactly one of the optional elements.
InitDom == \E e \in OptionalElements : InitWith({e})

SpecDom == InitDom /\ [][Next]_vars

---------------------------------------------------------------------------
\* Vocabulary of the properties.

\* The requests whose handler is suspended at an await.
Pending == {i \in DOMAIN requests : requests[i].pc \in {"fetch", "json"}}

\* The last callback was a submit event whose barcode was empty after trimming.
EmptySubmit(l) == l.op = "submit" /\ (~barcodeInput \/ Trim(l.arg) = <<>>)

\* The last callback ended a submission that had issued a request.
Completion(l) == l.op \in {"fetchReject", "jsonReject", "jsonResolve"}

\* The summary, timeline and raw views of d are the ones of payload data.
Shows(d, data) ==
    /\ d.summary = IF SummaryItems(data) = <<>> THEN SummaryEmptyState
                   ELSE [kind |-> "items", items |-> SummaryItems(data)]
    /\ d.timeline = IF Events(data) = <<>> THEN TimelineEmptyState
                    ELSE [kind |-> "list", items |-> TimelineItems(Events(data))]
    /\ d.rawText = JSONStringify(RawPayload(data))
    /\ ~d.rawHidden

Views(d) == <<d.summary, d.timeline, d.rawText, d.rawHidden>>

ErrorVisible == ~dom.errorHidden

SuccessVisible == ~dom.successHidden

---------------------------------------------------------------------------
\* C1: a submit event whose barcode is empty or whitespace-only after trimming
\* issues no network call, and when the handler returns the error region is
\* visible with the validation message and the success banner is hidden.
C1_EmptySubmitIsLocal ==
    [][EmptySubmit(last') =>
          /\ netCalls' = netCalls
          /\ requests' = requests
          /\ errorBox => (~dom'.errorHidden /\ dom'.errorText = ValidationMessage)
          /\ dom'.successHidden]_vars

\* A whitespace-only barcode was submitted while a request was in flight.
C1_Witness ==
    /\ EmptySubmit(last)
    /\ last.arg = <<" ">>
    /\ Pending # {}
    /\ ErrorVisible
    /\ dom.errorText = ValidationMessage

\* C2 (as claimed): the error region and the success banner are never both
\* visible between callbacks.
C2_BannersExclusive == ~(ErrorVisible /\ SuccessVisible)

\* C3 (as claimed): every submission that ends, by validation failure or by a
\* completed request, leaves the loading indicator hidden.
C3_LoadingHiddenOnEveryExit ==
    (EmptySubmit(last) \/ Completion(last)) => dom.loadingHidden

\* C3 (amended): a submission that issued a request leaves the loading
\* indicator hidden when its handler finishes, whatever else is in flight; a
\* validation failure leaves the loading indicator as it was.
C3_LoadingOffAfterRequest ==
    [][/\ Completion(last') => dom'.loadingHidden
       /\ EmptySubmit(last') => dom'.loadingHidden = dom.loadingHidden]_vars

\* A request failed and hid the loading indicator while another was in flight.
C3_Witness ==
    /\ last.op = "fetchReject"
    /\ Pending # {}
    /\ dom.loadingHidden

\* C4: no request is cancelled or de-duplicated (every non-empty submission
\* has its own request, pending until its own completion), and once overlapping
\* submissions have all succeeded the three views show the payload of the
\* response that completed last.
C4_LastCompletionWins ==
    /\ netCalls = submissions
    /\ Len(requests) = submissions
    /\ Cardinality(Pending) + Len(order) = Len(requests)
    /\ \A i \in DOMAIN requests : i \in Pending \/ \E k \in DOMAIN order : order[k] = i
    /\ (/\ Len(requests) >= 2
        /\ \A i \in DOMAIN requests : requests[i].pc = "ok")
       => /\ lastRender.req = order[Len(order)]
          /\ Shows(dom, lastRender.data)

\* Two overlapping submissions both succeeded, the first issued completing
\* last with a payload other than the one of the second.
C4_Witness ==
    /\ order = <<2, 1>>
    /\ requests[1].pc = "ok" /\ requests[2].pc = "ok"
    /\ last.op = "jsonResolve" /\ last.req = 1
    /\ last.arg.payload = ResultFull
    /\ dom.summary # SummaryEmptyState
    /\ Shows(dom, ResultFull)

\* C5: after the completion handler of a 2xx response carrying an object, the
\* error region is hidden and empty and the input's error flag is clear, the
\* three views show the payload, the success banner shows the fixed message
\* and the loading indicator is hidden.
C5_SuccessfulResponse ==
    (last.op = "jsonResolve" /\ last.arg.ok /\ last.arg.payload.t = "obj")
    => /\ dom.errorHidden /\ dom.errorText = ""
       /\ ~dom.hasError
       /\ Shows(dom, last.arg.payload)
       /\ SuccessVisible /\ dom.successText = SuccessMessage
       /\ dom.loadingHidden
       /\ ~dom.resultsHidden

\* A success completed after an overlapping request had failed.
C5_Witness ==
    /\ last.op = "jsonResolve" /\ last.arg.ok /\ last.arg.payload = ResultPartial
    /\ order = <<2, 1>>
    /\ requests[2].pc = "failed"
    /\ SuccessVisible

\* C6: after the completion handler of a non-2xx response whose body has a
\* non-empty error field e, the error region is visible with text e, the input
\* is flagged, the loading indicator is hidden, and the views are unchanged.
C6_ServerError ==
    [][(/\ last'.op = "jsonResolve"
        /\ ~last'.arg.ok
        /\ TruthyStr(Prop(last'.arg.payload, "error")))
       => /\ ~dom'.errorHidden
          /\ dom'.errorText = Prop(last'.arg.payload, "error")
          /\ dom'.hasError
          /\ dom'.loadingHidden
          /\ Views(dom') = Views(dom)]_vars

\* "not found" is shown over the views of an earlier successful response.
C6_Witness ==
    /\ last.op = "jsonResolve" /\ ~last.arg.ok
    /\ last.arg.payload = Obj([error |-> "not found"])
    /\ dom.errorText = "not found"
    /\ Shows(dom, ResultFull)

\* C7 (as claimed): a non-2xx response whose body cannot be parsed shows the
\* generic message of a non-2xx response without an error field.
C7_UnparsableShowsServerFallback ==
    (last.op = "jsonReject" /\ ~last.arg.ok)
    => (ErrorVisible /\ dom.errorText = ServerFallbackMessage)

\* C7 (amended): a non-2xx response whose body cannot be parsed is handled as
\* a transport failure: the error region holds the message of the failure
\* response.json() threw when that is an Error, and the unknown-error message
\* otherwise; the server fallback message is what a parsed non-2xx body
\* without a non-empty error field shows.
C7_UnparsableShowsParseFailure ==
    /\ (last.op = "jsonReject" /\ ~last.arg.ok)
       => /\ dom.errorText = IF last.arg.error.isError THEN last.arg.error.message
                             ELSE UnknownErrorMessage
          /\ dom.errorHidden = (dom.errorText = "")
    /\ (/\ last.op = "jsonResolve" /\ ~last.arg.ok
        /\ ~TruthyStr(Prop(last.arg.payload, "error")))
       => (ErrorVisible /\ dom.errorText = ServerFallbackMessage)

\* A non-2xx response with an unparsable body shows the parser's message.
C7_Witness ==
    /\ last.op = "jsonReject" /\ ~last.arg.ok
    /\ last.arg.error = Error("Unexpected token < in JSON at position 0")
    /\ ErrorVisible
    /\ dom.errorText = "Unexpected token < in JSON at position 0"

\* C8 (as claimed): a transport failure always ends with a visible, non-empty
\* message: the thrown failure's message when it has one, the unknown-error
\* message otherwise.
C8_TransportFailureVisible ==
    (last.op \in {"fetchReject", "jsonReject"})
    => LET e == IF last.op = "fetchReject" THEN last.arg ELSE last.arg.error
       IN  /\ ErrorVisible
           /\ dom.errorText = IF e.isError /\ e.message # "" THEN e.message
                              ELSE UnknownErrorMessage

\* C9: hydrating with a valid initial-tracking payload and no initial-error
\* renders the three views from it and shows the results panel, leaves the
\* success banner hidden and empty, and issues no network call.
C9_HydrateResult ==
    (/\ last.op = "hydrate"
     /\ last.arg.tracking.t = "json" /\ last.arg.tracking.v.t = "obj"
     /\ last.arg.error = ScriptMissing)
    => /\ Shows(dom, last.arg.tracking.v)
       /\ ~dom.resultsHidden
       /\ dom.successHidden /\ dom.successText = ""
       /\ dom.errorHidden
       /\ netCalls = 0 /\ requests = <<>>

C9_Witness ==
    /\ last.op = "hydrate"
    /\ last.arg = [tracking |-> Script(ResultFull), error |-> ScriptMissing]
    /\ Shows(dom, ResultFull)
    /\ dom.successHidden

\* C10: hydrating with only initial-error present, holding a non-empty message
\* m, shows m in the error region, flags the input and shows the results panel,
\* and renders nothing: summary and timeline keep their initial content, the
\* raw section and the success banner stay hidden.
C10_HydrateError ==
    (/\ last.op = "hydrate"
     /\ last.arg.tracking = ScriptMissing
     /\ last.arg.error.t = "json" /\ last.arg.error.v.t = "str"
     /\ last.arg.error.v.s # "")
    => /\ ErrorVisible /\ dom.errorText = last.arg.error.v.s
       /\ dom.hasError
       /\ ~dom.resultsHidden
       /\ dom.summary = InitialContent /\ dom.timeline = InitialContent
       /\ dom.rawHidden /\ dom.rawText = ""
       /\ dom.successHidden
       /\ lastRender = NoRender

C10_Witness ==
    /\ last.op = "hydrate"
    /\ last.arg = [tracking |-> ScriptMissing, error |-> Script(Str("bad code"))]
    /\ dom.errorText = "bad code"
    /\ ErrorVisible


\* C11: an embedded script that is present but unparsable is treated as a
\* missing one, each of the two scripts on its own: the page after hydration
\* is the page hydration gives with the unparsable script missing, so the
\* other script still takes effect; a console warning is the only difference.
C11_MalformedIsMissing ==
    (/\ last.op = "hydrate"
     /\ (last.arg.tracking = ScriptMalformed \/ last.arg.error = ScriptMalformed))
    => LET asMissing(s) == IF s = ScriptMalformed THEN ScriptMissing ELSE s
           t == last.arg.tracking
           e == last.arg.error
       IN  /\ dom = hydrateInitialState(InitialDom(dom.value), asMissing(t), asMissing(e))
           /\ (t = ScriptMalformed /\ e = Script(Str("bad code")))
              => (ErrorVisible /\ dom.errorText = "bad code"
                  /\ dom.summary = InitialContent /\ dom.timeline = InitialContent)
           /\ (e = ScriptMalformed /\ t = Script(ResultFull))
              => (Shows(dom, ResultFull) /\ dom.errorHidden /\ ~dom.resultsHidden)
           /\ (t = ScriptMalformed /\ e \in {ScriptMissing, ScriptMalformed})
              => dom = InitialDom(dom.value)
           /\ warnings = (IF t = ScriptMalformed THEN 1 ELSE 0)
                         + (IF e = ScriptMalformed THEN 1 ELSE 0)
           /\ netCalls = 0

\* An unparsable initial-tracking did not keep a valid initial-error from showing.
C11_Witness ==
    /\ last.op = "hydrate"
    /\ last.arg = [tracking |-> ScriptMalformed, error |-> Script(Str("bad code"))]
    /\ ErrorVisible /\ dom.errorText = "bad code"
    /\ warnings = 1

\* C12: after any input event on the barcode field, also with requests in
\* flight, the error region and the success banner are hidden and empty, and
\* the has-error flag is clear when the trimmed value is empty.
C12_InputClearsBanners ==
    (last.op = "input")
    => /\ dom.errorHidden /\ dom.errorText = ""
       /\ dom.successHidden /\ dom.successText = ""
       /\ (Trim(dom.value) = <<>>) => ~dom.hasError
       /\ dom.value = last.arg

\* The field was emptied while one request was pending and another had ended.
C12_Witness ==
    /\ last.op = "input" /\ last.arg = <<" ">>
    /\ Pending # {} /\ order # <<>>
    /\ dom.errorHidden /\ dom.successHidden /\ ~dom.hasError

\* C13: the number of network calls issued always equals the number of submit
\* events with a non-empty trimmed barcode: a call is issued by such a submit
\* event, exactly one, and by nothing else (a failure issues no retry).
C13_OneCallPerSubmission ==
    [][/\ netCalls' - netCalls
            = IF last'.op = "submit" /\ ~EmptySubmit(last') THEN 1 ELSE 0
       /\ netCalls' = submissions'
       /\ Len(requests') = netCalls']_vars

\* Two submissions issued two calls; both failed and nothing was retried.
C13_Witness ==
    /\ netCalls = 2 /\ submissions = 2
    /\ Pending = {}
    /\ \A i \in DOMAIN requests : requests[i].pc = "failed"
    /\ last.op = "fetchReject"


---------------------------------------------------------------------------
\* What each callback does to a complete page (every element present), as a
\* function of the page before it and of the callback's inputs.

ErrorShown(d, message) ==
    [d EXCEPT !.errorText = IF Truthy(message) THEN StringOf(message) ELSE "",
              !.errorHidden = ~Truthy(message),
              !.hasError = Truthy(message),
              !.resultsHidden = IF Truthy(message) THEN FALSE ELSE @]

SuccessCleared(d) == [d EXCEPT !.successHidden = TRUE, !.successText = ""]

PanelShown(d) == ErrorShown(SuccessCleared([d EXCEPT !.resultsHidden = FALSE]), Str(""))

Rendered(d, data) ==
    [PanelShown(d) EXCEPT
        !.summary = IF SummaryItems(data) = <<>> THEN SummaryEmptyState
                    ELSE [kind |-> "items", items |-> SummaryItems(data)],
        !.timeline = IF Events(data) = <<>> THEN TimelineEmptyState
                     ELSE [kind |-> "list", items |-> TimelineItems(Events(data))],
        !.rawText = JSONStringify(RawPayload(data)),
        !.rawHidden = FALSE,
        !.successText = SuccessMessage,
        !.successHidden = FALSE]

Failed(d, error) == [ErrorShown(d, Str(CatchMessage(error))) EXCEPT !.loadingHidden = TRUE]

FullEffect(d, l) ==
    CASE l.op = "hydrate" ->
            LET initialResult == readJSONScript(l.arg.tracking).value
                initialError  == readJSONScript(l.arg.error).value
                d1 == IF Truthy(initialResult)
                      THEN SuccessCleared(Rendered(d, initialResult)) ELSE d
            IN  IF Truthy(initialError) THEN ErrorShown(d1, initialError) ELSE d1
      [] l.op = "input" ->
            ErrorShown(SuccessCleared([d EXCEPT !.value = l.arg]), Str(""))
      [] l.op = "submit" ->
            IF Trim(l.arg) = <<>>
            THEN ErrorShown(SuccessCleared(d), Str(ValidationMessage))
            ELSE ErrorShown([SuccessCleared(d) EXCEPT !.loadingHidden = FALSE], Str(""))
      [] l.op = "fetchResolve" -> d
      [] l.op = "fetchReject" -> Failed(d, l.arg)
      [] l.op = "jsonReject" -> Failed(d, l.arg.error)
      [] l.op = "jsonResolve" ->
            IF ~l.arg.ok THEN Failed(d, Error(ServerErrorMessage(l.arg.payload)))
            ELSE IF l.arg.payload.t = "null"
                 THEN Failed([PanelShown(d) EXCEPT !.summary = Cleared], TypeError("barcode"))
                 ELSE [Rendered(d, l.arg.payload) EXCEPT !.loadingHidden = TRUE]

\* The fields of dom that belong to the missing elements.
OwnFields ==
    UNION { CASE e = "resultsPanel"      -> {"resultsHidden"}
              [] e = "summaryContainer"  -> {"summary"}
              [] e = "timelineContainer" -> {"timeline"}
              [] e = "rawSection"        -> {"rawText", "rawHidden"}
              [] e = "errorBox"          -> {"errorText", "errorHidden"}
              [] e = "successBox"        -> {"successText", "successHidden"}
              [] e = "loadingOverlay"    -> {"loadingHidden"}
              [] OTHER                   -> {}
            : e \in absent }

\* Pages d1 and d2 agree on every field outside fields.
SameExcept(d1, d2, fields) == \A f \in (DOMAIN d1) \ fields : d1[f] = d2[f]

\* The callback renders a result: hydration with a result, or a 2xx response.
RenderStep(l) ==
    \/ l.op = "hydrate" /\ Truthy(readJSONScript(l.arg.tracking).value)
    \/ l.op = "jsonResolve" /\ l.arg.ok

\* The complete page proper: every callback does to it what FullEffect says.
FullEffectOnCompletePage == [][absent = {} => dom' = FullEffect(dom, last')]_vars


\* C14 (as claimed): with any single optional element missing, every callback
\* does to the elements that are present what it does to them on a complete
\* page.
C14_AbsenceOnlyDisablesOwnFeature ==
    [][SameExcept(dom', FullEffect(dom, last'), OwnFields)]_vars

\* C14 (amended): that holds with the timeline region, the raw section, the
\* success region or the loading indicator missing, and with the summary
\* region missing but for the text of the error a 2xx body of JSON null ends
\* in.  With the results panel missing a render does nothing at all (no view,
\* error or success banner changes), everything else is as on a complete page.
\* With the error region missing nothing sets the input's flag or reveals the
\* results panel for an error: only the input listener clears the flag for an
\* empty value and only a render reveals the panel; everything else is as on
\* a complete page.
C14_AbsenceEffects ==
    [][/\ (absent \subseteq {"timelineContainer", "rawSection", "successBox", "loadingOverlay"})
          => SameExcept(dom', FullEffect(dom, last'), OwnFields)
       /\ (absent = {"summaryContainer"})
          => /\ SameExcept(dom', FullEffect(dom, last'), OwnFields \cup {"errorText"})
             /\ dom'.errorText =
                   IF last'.op = "jsonResolve" /\ last'.arg.ok /\ last'.arg.payload.t = "null"
                   THEN TypeErrorMessage("events")
                   ELSE FullEffect(dom, last').errorText
       /\ (absent = {"resultsPanel"})
          => IF RenderStep(last')
             THEN IF last'.op = "hydrate"
                  THEN SameExcept(dom', FullEffect(dom, [last' EXCEPT !.arg.tracking =
                                                             ScriptMissing]), OwnFields)
                  ELSE dom' = [dom EXCEPT !.loadingHidden = TRUE]
             ELSE SameExcept(dom', FullEffect(dom, last'), OwnFields)
       /\ (absent = {"errorBox"})
          => /\ SameExcept(dom', FullEffect(dom, last'),
                           OwnFields \cup {"hasError", "resultsHidden"})
             /\ dom'.hasError = IF last'.op = "input" /\ Trim(last'.arg) = <<>>
                                THEN FALSE ELSE dom.hasError
             /\ dom'.resultsHidden = IF RenderStep(last') THEN FALSE ELSE dom.resultsHidden]_vars

\* Without a timeline region a 2xx response filled the summary and the raw
\* view and showed the success banner.
C14_Witness ==
    /\ absent = {"timelineContainer"}
    /\ last.op = "jsonResolve" /\ last.arg.ok /\ last.arg.payload = ResultFull
    /\ dom.summary.kind = "items"
    /\ ~dom.rawHidden
    /\ SuccessVisible
    /\ dom.timeline = InitialContent


---------------------------------------------------------------------------
\* The renderers on their own: a region that holds an earlier render is
\* rendered again from any tracking result.

\* A property is missing, empty or holds a value.
Presence == {"missing", "empty", "value"}

\* The object with the properties keys, as function shape says.
ObjectOf(keys, shape) ==
    [k \in {x \in keys : shape[x] # "missing"} |->
        IF shape[k] = "empty" THEN "" ELSE "value of " \o k]

SummaryKeys == {"barcode", "current_status", "sender", "receiver"}

SummaryInputs == {Obj(ObjectOf(SummaryKeys, shape)) : shape \in [SummaryKeys -> Presence]}

EventKeys == {"date", "time", "description", "location"}

\* The events of the model: at most one property of an event is empty.
EventInputs ==
    {ObjectOf(EventKeys, shape) :
        shape \in {s \in [EventKeys -> Presence] :
                      Cardinality({k \in EventKeys : s[k] = "empty"}) <= 1}}

TimelineInputs ==
    {EmptyObject} \cup
    {Obj([events |-> events]) :
        events \in UNION {[1..n -> EventInputs] : n \in 0..MaxEvents}}

\* The results rendered first, so that the region holds something.
FirstInputs ==
    {EmptyObject, ResultFull,
     Obj([sender |-> "S", events |-> <<[time |-> "t0", location |-> "Qom"]>>])}

InitRender ==
    /\ absent = {}
    /\ dom = InitialDom(<<>>)
    /\ phase = "first"
    /\ requests = <<>>
    /\ netCalls = 0
    /\ submissions = 0
    /\ warnings = 0
    /\ order = <<>>
    /\ lastRender = NoRender
    /\ \E data \in FirstInputs : last = [op |-> "pending", req |-> 0, arg |-> data]

\* The next result to render arrives.
Requeue(data) ==
    /\ phase = "rendered"
    /\ phase' = "second"
    /\ last' = [op |-> "pending", req |-> 0, arg |-> data]
    /\ UNCHANGED <<absent, dom, requests, netCalls, submissions, warnings, order, lastRender>>

NextPhase == IF phase = "first" THEN "rendered" ELSE "done"

\* renderSummary(data) on the page as it is.
RenderSummaryStep ==
    /\ phase \in {"first", "second"}
    /\ phase' = NextPhase
    /\ dom' = renderSummary(dom, last.arg).dom
    /\ last' = [op |-> "renderSummary", req |-> 0, arg |-> last.arg]
    /\ UNCHANGED <<absent, requests, netCalls, submissions, warnings, order, lastRender>>

\* renderTimeline(data.events || []) on the page as it is.
RenderTimelineStep ==
    /\ phase \in {"first", "second"}
    /\ phase' = NextPhase
    /\ dom' = renderTimeline(dom, Events(last.arg))
    /\ last' = [op |-> "renderTimeline", req |-> 0, arg |-> last.arg]
    /\ UNCHANGED <<absent, requests, netCalls, submissions, warnings, order, lastRender>>

NextSummary ==
    \/ RenderSummaryStep
    \/ phase = "rendered" /\ \E data \in SummaryInputs : Requeue(data)

SpecSummary == InitRender /\ [][NextSummary]_vars

NextTimeline ==
    \/ RenderTimelineStep
    \/ phase = "rendered" /\ \E data \in TimelineInputs : Requeue(data)

SpecTimeline == InitRender /\ [][NextTimeline]_vars

\* Property k of object fields holds a non-empty value.
NonEmpty(fields, k) == k \in DOMAIN fields /\ fields[k] # ""

\* C15: the summary rendered from a tracking result holds one entry per
\* non-empty field among barcode, current_status, sender, receiver, in that
\* order, each with the field's label and value, and holds the empty-state
\* placeholder exactly when none of the four is non-empty; what the region
\* held before is gone.
C15_SummaryEntries ==
    (last.op = "renderSummary")
    => LET fields == last.arg.f
           shown == {n \in 1..Len(SummaryFields) : NonEmpty(fields, SummaryFields[n].key)}
           items == dom.summary.items
           index(i) == CHOOSE n \in 1..Len(SummaryFields) : SummaryFields[n].label = items[i].label
       IN  /\ (shown = {}) <=> (dom.summary = SummaryEmptyState)
           /\ (shown # {}) =>
                /\ dom.summary.kind = "items"
                /\ Len(items) = Cardinality(shown)
                /\ \A i \in 1..Len(items) :
                      /\ \E n \in shown : SummaryFields[n].label = items[i].label
                      /\ items[i].value = fields[SummaryFields[index(i)].key]
                /\ \A i, j \in 1..Len(items) : (i < j) => (index(i) < index(j))

\* Over a summary of three entries, a result with two non-empty fields (and an
\* empty one between them) was rendered: two entries.
C15_Witness ==
    /\ phase = "done"
    /\ last.op = "renderSummary"
    /\ last.arg = Obj([barcode |-> "value of barcode", sender |-> "",
                       receiver |-> "value of receiver"])
    /\ dom.summary.kind = "items"
    /\ Len(dom.summary.items) = 2
    /\ dom.summary.items[1].label = "tracking code"
    /\ dom.summary.items[2].label = "receiver"

\* C16: the timeline rendered from a tracking result holds the empty-state
\* block exactly when events is missing or empty, and otherwise one item per
\* event in the order received, with "-" for a missing date or time, "unknown
\* status" for a missing description and "unknown location" for a missing
\* location; what the region held before is gone.
C16_TimelineItems ==
    (last.op = "renderTimeline")
    => LET fields == last.arg.f
           events == IF "events" \in DOMAIN fields THEN fields.events ELSE <<>>
           items == dom.timeline.items
           text(e, k, fallback) == IF NonEmpty(e, k) THEN e[k] ELSE fallback
       IN  /\ (events = <<>>) <=> (dom.timeline = TimelineEmptyState)
           /\ (events # <<>>) =>
                /\ dom.timeline.kind = "list"
                /\ Len(items) = Len(events)
                /\ \A i \in 1..Len(events) :
                      /\ items[i].date = text(events[i], "date", "-")
                      /\ items[i].time = text(events[i], "time", "-")
                      /\ items[i].title = text(events[i], "description", "unknown status")
                      /\ items[i].location = text(events[i], "location", "unknown location")

\* Over a rendered list, two events were rendered in the order received: the
\* one without a date before the one with a date.
C16_Witness ==
    /\ phase = "done"
    /\ last.op = "renderTimeline"
    /\ dom.timeline.kind = "list"
    /\ Len(dom.timeline.items) = 2
    /\ dom.timeline.items[1].date = "-"
    /\ dom.timeline.items[1].title = "value of description"
    /\ dom.timeline.items[2].date = "value of date"
    /\ dom.timeline.items[2].location = "unknown location"


----------------------------------------------------------------------------
\* C17: an input event changes only the error region, the success banner and
\* the has-error flag of the input (and the field's own value): the summary,
\* timeline and raw views, the visibility of the results panel and of the raw
\* section and the loading indicator stay as they were, and no request is
\* issued or cancelled, so that every request in flight is still in flight.
C17_InputFrame ==
    [][last'.op = "input" =>
          /\ Views(dom') = Views(dom)
          /\ dom'.resultsHidden = dom.resultsHidden
          /\ dom'.loadingHidden = dom.loadingHidden
          /\ requests' = requests
          /\ netCalls' = netCalls
          /\ submissions' = submissions
          /\ order' = order
          /\ lastRender' = lastRender
          /\ \A f \in DOMAIN dom \ {"errorText", "errorHidden", "successText",
                                    "successHidden", "hasError", "value"} :
                dom'[f] = dom[f]]_vars

\* The user edited the field while a request was in flight and an earlier
\* result was on display with the loading indicator visible.
C17_Witness ==
    /\ last.op = "input"
    /\ Pending # {}
    /\ ~dom.loadingHidden
    /\ ~dom.resultsHidden
    /\ lastRender # NoRender
    /\ Shows(dom, lastRender.data)
    /\ dom.summary # SummaryEmptyState


----------------------------------------------------------------------------
\* C18: whenever the loading indicator is visible at least one request is in
\* flight; hence once every issued request has completed, successfully or
\* not, the loading indicator is hidden.
C18_LoadingImpliesPending ==
    /\ ~dom.loadingHidden => Pending # {}
    /\ Pending = {} => dom.loadingHidden

\* The loading indicator is visible for the second request alone, the first
\* one having completed.
C18_Witness ==
    /\ ~dom.loadingHidden
    /\ order = <<1>>
    /\ Pending = {2}
    /\ last.op = "submit"


----------------------------------------------------------------------------
\* C19: with the error region and the barcode input present, after every
\* callback the input carries the has-error flag if and only if the error
\* region is visible with a non-empty message, and a visible error region
\* implies a visible results panel.
C19_ErrorFlagCoupled ==
    (errorBox /\ barcodeInput)
    => /\ dom.hasError <=> (~dom.errorHidden /\ dom.errorText # "")
       /\ ~dom.errorHidden => ~dom.resultsHidden

\* The same coupling for the callbacks whose message is a string: every
\* callback but a hydration whose initial-error is not a string.
C19_CoupledForStrings ==
    (/\ errorBox /\ barcodeInput
     /\ ~(last.op = "hydrate" /\ last.arg.error = Script(EmptyArray)))
    => /\ dom.hasError <=> (~dom.errorHidden /\ dom.errorText # "")
       /\ ~dom.errorHidden => ~dom.resultsHidden


----------------------------------------------------------------------------
\* C20: with every display region present, after every callback the summary,
\* timeline and raw views all show one and the same payload, the one rendered
\* most recently (by hydration or by a successful response), whatever the
\* interleaving of overlapping completions.
C20_ViewsOfOnePayload ==
    lastRender # NoRender => Shows(dom, lastRender.data)

\* What does hold: the three views change only in a render, and a render
\* leaves all three showing its payload, unless the body of a 2xx response is
\* null, which empties the summary and stops there.
C20_ViewsChangeTogether ==
    [][\/ Views(dom') = Views(dom)
       \/ /\ last'.op = "hydrate"
          /\ Shows(dom', readJSONScript(last'.arg.tracking).value)
       \/ /\ last'.op = "jsonResolve" /\ last'.arg.ok
          /\ last'.arg.payload.t = "obj"
          /\ Shows(dom', last'.arg.payload)
       \/ /\ last'.op = "jsonResolve" /\ last'.arg.ok
          /\ last'.arg.payload = Null
          /\ dom'.summary = Cleared
          /\ <<dom'.timeline, dom'.rawText, dom'.rawHidden>>
                = <<dom.timeline, dom.rawText, dom.rawHidden>>]_vars

====
